---- MODULE Spec2Model ----
(***************************************************************************)
(* ProjectClient of go-tracker (project_client.go): a project-scoped       *)
(* client whose operations each assemble a request through the transport   *)
(* collaborator conn (CreateRequest, Do), optionally attach a JSON body,   *)
(* and shape the result.  The transport is the environment: every call of  *)
(* CreateRequest and Do is answered by an outcome chosen nondeterminis-    *)
(* tically.  id is the project the client is bound to, call the operation  *)
(* the caller invoked with its arguments, pc whether that operation has    *)
(* returned, log the sequence of transport calls the operation made and    *)
(* ret what it returned to its caller.                                     *)
(***************************************************************************)
EXTENDS Integers, Sequences, FiniteSets, TLC

VARIABLES id, pc, call, log, ret

vars == <<id, pc, call, log, ret>>

(***************************************************************************)
(* Bounds of the input domains.                                            *)
(***************************************************************************)
MaxProjectID == 12
MaxStoryId == 42
MaxLimit == 10
MaxOffset == 20
MaxPayload == 1

ProjectIDs == {1, MaxProjectID}
StoryIds == {-1, 0, MaxStoryId}
Limits == {-1, 0, MaxLimit}
Offsets == {-MaxOffset, 0, MaxOffset}
Labels == {"", "bug"}
CommentTexts == {"", "shipped"}

(***************************************************************************)
(* Go values.  Errors are strings, NilError is the nil error.  A nil       *)
(* url.Values reads as the empty map, so both are the empty function.      *)
(***************************************************************************)
NilError == "<nil>"
CreateErrors == {"parse: malformed URL", "parse: invalid query"}
DoErrors == {"dial: connection refused", "json: cannot unmarshal"}

NilRequest == [nil |-> TRUE]
NilBody == [nil |-> TRUE]
NilDest == "nil"
NoValue == [none |-> TRUE]

IterationScopeDone == "done"
IterationScopeCurrent == "current"
IterationScopeBacklog == "backlog"
IterationScopeCurrentBacklog == "current_backlog"
IterationScopeDoneCurrent == "done_current"

IterationScopes ==
    { "", IterationScopeDone, IterationScopeCurrent, IterationScopeBacklog,
      IterationScopeCurrentBacklog, IterationScopeDoneCurrent }

Pagination == [Total : {0, 7}, Limit : {0}, Offset : {0}, Returned : {0}]
ZeroPagination == [Total |-> 0, Limit |-> 0, Offset |-> 0, Returned |-> 0]

(***************************************************************************)
(* fmt.Sprintf("%d", n): the base-10 rendering of an int, built digit by   *)
(* digit.                                                                  *)
(***************************************************************************)
Digit(d) ==
    CASE d = 0 -> "0" [] d = 1 -> "1" [] d = 2 -> "2" [] d = 3 -> "3"
      [] d = 4 -> "4" [] d = 5 -> "5" [] d = 6 -> "6" [] d = 7 -> "7"
      [] d = 8 -> "8" [] d = 9 -> "9"

RECURSIVE Digits(_)
Digits(n) == IF n < 10 THEN Digit(n) ELSE Digits(n \div 10) \o Digit(n % 10)

Sprintf_d(n) == IF n < 0 THEN "-" \o Digits(-n) ELSE Digits(n)

(***************************************************************************)
(* url.Values: a map from key to a list of values.  Set replaces the list  *)
(* of a key by the single value.                                           *)
(***************************************************************************)
EmptyValues == << >>

Values_Set(params, key, value) ==
    [k \in (DOMAIN params) \cup {key} |->
        IF k = key THEN <<value>> ELSE params[k]]

(***************************************************************************)
(* http.Header.Add appends the value to the list of the key.               *)
(***************************************************************************)
Header_Add(header, key, value) ==
    [k \in (DOMAIN header) \cup {key} |->
        IF k = key
        THEN (IF key \in DOMAIN header THEN header[key] ELSE << >>) \o <<value>>
        ELSE header[k]]

(***************************************************************************)
(* IterationsQuery.Query                                                   *)
(***************************************************************************)
IterationsQueries ==
    [Scope : IterationScopes, Label : Labels, Limit : Limits, Offset : Offsets]

IterationsQuery_Query_PositiveOnly(query) ==
    LET p1 == IF query.Scope # ""
              THEN Values_Set(EmptyValues, "scope", query.Scope) ELSE EmptyValues
        p2 == IF query.Label # ""
              THEN Values_Set(p1, "label", query.Label) ELSE p1
        p3 == IF query.Limit > 0
              THEN Values_Set(p2, "limit", Sprintf_d(query.Limit)) ELSE p2
        p4 == IF query.Offset > 0
              THEN Values_Set(p3, "offset", Sprintf_d(query.Offset)) ELSE p3
    IN  p4

IterationsQuery_Query(query) ==
    LET p1 == IF query.Scope # ""
              THEN Values_Set(EmptyValues, "scope", query.Scope) ELSE EmptyValues
        p2 == IF query.Label # ""
              THEN Values_Set(p1, "label", query.Label) ELSE p1
        p3 == IF query.Limit # 0
              THEN Values_Set(p2, "limit", Sprintf_d(query.Limit)) ELSE p2
        p4 == IF query.Offset # 0
              THEN Values_Set(p3, "offset", Sprintf_d(query.Offset)) ELSE p3
    IN  p4

(***************************************************************************)
(* The query types declared outside project_client.go (StoriesQuery,       *)
(* ActivityQuery, TaskQuery, CommentsQuery): a limit/offset filter whose   *)
(* zero-valued fields are omitted.                                         *)
(***************************************************************************)
PagingQueries == [Limit : {0, MaxLimit}, Offset : {0, MaxOffset}]

PagingQuery_Query(query) ==
    LET p1 == IF query.Limit # 0
              THEN Values_Set(EmptyValues, "limit", Sprintf_d(query.Limit))
              ELSE EmptyValues
        p2 == IF query.Offset # 0
              THEN Values_Set(p1, "offset", Sprintf_d(query.Offset)) ELSE p1
    IN  p2

StoriesQuery_Query(query) == PagingQuery_Query(query)
ActivityQuery_Query(query) == PagingQuery_Query(query)
TaskQuery_Query(query) == PagingQuery_Query(query)
CommentsQuery_Query(query) == PagingQuery_Query(query)

(***************************************************************************)
(* The transport collaborator conn.  An outcome of CreateRequest is an     *)
(* error, or a request that carries the headers the transport installs     *)
(* and no body.  An outcome of Do is an error, a pagination value and the  *)
(* number of records it decoded into the destination (0: the destination   *)
(* is left as it was).                                                     *)
(***************************************************************************)
TransportHeaders == { << >>, [Accept |-> <<"application/json">>] }

CreateOutcomes == [err : CreateErrors \cup {NilError}, header : TransportHeaders]

DoOutcomes ==
    [err : DoErrors \cup {NilError}, pagination : Pagination, decoded : 0 .. MaxPayload]

conn_CreateRequest(method, path, params, cr) ==
    LET request == IF cr.err # NilError THEN NilRequest
                   ELSE [Method |-> method, Path |-> path, Query |-> params,
                         Header |-> cr.header, Body |-> NilBody]
    IN  [request |-> request, err |-> cr.err,
         event |-> [fn |-> "CreateRequest", method |-> method, path |-> path,
                    params |-> params, request |-> request, err |-> cr.err]]

(***************************************************************************)
(* The destinations the operations hand to Do, their zero values, and the  *)
(* values Do decodes into them.                                            *)
(***************************************************************************)
NilSlice == [nil |-> TRUE, elems |-> << >>]
EmptySlice == [nil |-> FALSE, elems |-> << >>]

IsSliceDest(dest) ==
    dest \in {"[]Iteration", "[]Story", "[]Activity", "[]Task", "[]Comment",
              "[]ProjectMembership"}

Record(dest, n) ==
    CASE dest \in {"[]Iteration"} -> [Number |-> n]
      [] dest \in {"[]Comment", "Comment"} -> [ID |-> n, Text |-> "shipped"]
      [] OTHER -> [ID |-> n]

ZeroValue(dest) ==
    CASE dest = NilDest -> NoValue
      [] IsSliceDest(dest) -> NilSlice
      [] dest = "Comment" -> [ID |-> 0, Text |-> ""]
      [] OTHER -> [ID |-> 0]

Decoded(dest, n) ==
    IF dest = NilDest \/ n = 0 THEN ZeroValue(dest)
    ELSE IF IsSliceDest(dest)
         THEN [nil |-> FALSE, elems |-> [i \in 1 .. n |-> Record(dest, i)]]
         ELSE Record(dest, n)

conn_Do(request, dest, do) ==
    LET out == Decoded(dest, do.decoded)
    IN  [pagination |-> do.pagination, out |-> out, err |-> do.err,
         event |-> [fn |-> "Do", request |-> request, dest |-> dest,
                    pagination |-> do.pagination, out |-> out, err |-> do.err]]

(***************************************************************************)
(* ProjectClient.createRequest, addJSONBodyReader, addJSONBody             *)
(***************************************************************************)
createRequest_NoPrefix(p_id, method, path, params, cr) ==
    conn_CreateRequest(method, path, params, cr)

createRequest(p_id, method, path, params, cr) ==
    LET projectPath == "/projects/" \o Sprintf_d(p_id) \o path
    IN  conn_CreateRequest(method, projectPath, params, cr)

addJSONBodyReader_NoHeader(request, body) ==
    [request EXCEPT !.Body = [reader |-> body]]

addJSONBodyReader(request, body) ==
    [request EXCEPT !.Header = Header_Add(@, "Content-Type", "application/json"),
                    !.Body = [reader |-> body]]

addJSONBody(request, body) == addJSONBodyReader(request, [text |-> body])

\* json.NewEncoder(buffer).Encode(v): the buffer holds the JSON document of v
json_Encode(v) == [json |-> v]

(***************************************************************************)
(* The operations.  Each takes its arguments and the outcomes of the       *)
(* transport calls it may make, and yields the transport calls it made     *)
(* (log) with the values it returns.                                       *)
(***************************************************************************)
DeliverStory_Post(p_id, storyId, cr, do) ==
    LET url == "/stories/" \o Sprintf_d(storyId)
        c == createRequest(p_id, "POST", url, EmptyValues, cr)
    IN  IF c.err # NilError
        THEN [log |-> <<c.event>>, err |-> c.err]
        ELSE LET request == addJSONBody(c.request, "{\"current_state\":\"delivered\"}")
                 d == conn_Do(request, NilDest, do)
             IN  [log |-> <<c.event, d.event>>, err |-> d.err]

DeliverStory(p_id, storyId, cr, do) ==
    LET url == "/stories/" \o Sprintf_d(storyId)
        c == createRequest(p_id, "PUT", url, EmptyValues, cr)
    IN  IF c.err # NilError
        THEN [log |-> <<c.event>>, err |-> c.err]
        ELSE LET request == addJSONBody(c.request, "{\"current_state\":\"delivered\"}")
                 d == conn_Do(request, NilDest, do)
             IN  [log |-> <<c.event, d.event>>, err |-> d.err]


DeliverStoryWithComment_IgnoresDeliveryError(p_id, storyId, comment, cr1, do1, cr2, do2) ==
    LET first == DeliverStory(p_id, storyId, cr1, do1)
        url == "/stories/" \o Sprintf_d(storyId) \o "/comments"
        c == createRequest(p_id, "POST", url, EmptyValues, cr2)
    IN  IF c.err # NilError
        THEN [log |-> first.log \o <<c.event>>, err |-> c.err]
        ELSE LET buffer == json_Encode([Text |-> comment])
                 request == addJSONBodyReader(c.request, buffer)
                 d == conn_Do(request, NilDest, do2)
             IN  [log |-> first.log \o <<c.event, d.event>>, err |-> d.err]

DeliverStoryWithComment_Redelivers(p_id, storyId, comment, cr1, do1, cr2, do2) ==
    LET first == DeliverStory(p_id, storyId, cr1, do1)
    IN  IF first.err # NilError
        THEN [log |-> first.log, err |-> first.err]
        ELSE LET url == "/stories/" \o Sprintf_d(storyId) \o "/comments"
                 c == createRequest(p_id, "POST", url, EmptyValues, cr2)
             IN  IF c.err # NilError
                 THEN [log |-> first.log \o <<c.event>> \o first.log, err |-> c.err]
                 ELSE LET buffer == json_Encode([Text |-> comment])
                          request == addJSONBodyReader(c.request, buffer)
                          d == conn_Do(request, NilDest, do2)
                      IN  [log |-> first.log \o <<c.event, d.event>>
                                     \o (IF d.err # NilError THEN first.log ELSE << >>),
                           err |-> d.err]

DeliverStoryWithComment(p_id, storyId, comment, cr1, do1, cr2, do2) ==
    LET first == DeliverStory(p_id, storyId, cr1, do1)
    IN  IF first.err # NilError
        THEN [log |-> first.log, err |-> first.err]
        ELSE LET url == "/stories/" \o Sprintf_d(storyId) \o "/comments"
                 c == createRequest(p_id, "POST", url, EmptyValues, cr2)
             IN  IF c.err # NilError
                 THEN [log |-> first.log \o <<c.event>>, err |-> c.err]
                 ELSE LET buffer == json_Encode([Text |-> comment])
                          request == addJSONBodyReader(c.request, buffer)
                          d == conn_Do(request, NilDest, do2)
                      IN  [log |-> first.log \o <<c.event, d.event>>, err |-> d.err]

Iterations(p_id, query, cr, do) ==
    LET c == createRequest(p_id, "GET", "/iterations", IterationsQuery_Query(query), cr)
    IN  IF c.err # NilError
        THEN [log |-> <<c.event>>, value |-> NilSlice,
              pagination |-> ZeroPagination, err |-> c.err]
        ELSE LET d == conn_Do(c.request, "[]Iteration", do)
             IN  IF d.err # NilError
                 THEN [log |-> <<c.event, d.event>>, value |-> NilSlice,
                       pagination |-> ZeroPagination, err |-> d.err]
                 ELSE [log |-> <<c.event, d.event>>, value |-> d.out,
                       pagination |-> d.pagination, err |-> d.err]

Stories_DropsPagination(p_id, query, cr, do) ==
    LET c == createRequest(p_id, "GET", "/stories", StoriesQuery_Query(query), cr)
    IN  IF c.err # NilError
        THEN [log |-> <<c.event>>, value |-> NilSlice,
              pagination |-> ZeroPagination, err |-> c.err]
        ELSE LET d == conn_Do(c.request, "[]Story", do)
             IN  IF d.err # NilError
                 THEN [log |-> <<c.event, d.event>>, value |-> NilSlice,
                       pagination |-> ZeroPagination, err |-> d.err]
                 ELSE [log |-> <<c.event, d.event>>, value |-> d.out,
                       pagination |-> ZeroPagination, err |-> d.err]

Stories(p_id, query, cr, do) ==
    LET c == createRequest(p_id, "GET", "/stories", StoriesQuery_Query(query), cr)
    IN  IF c.err # NilError
        THEN [log |-> <<c.event>>, value |-> NilSlice,
              pagination |-> ZeroPagination, err |-> c.err]
        ELSE LET d == conn_Do(c.request, "[]Story", do)
             IN  IF d.err # NilError
                 THEN [log |-> <<c.event, d.event>>, value |-> NilSlice,
                       pagination |-> ZeroPagination, err |-> d.err]
                 ELSE [log |-> <<c.event, d.event>>, value |-> d.out,
                       pagination |-> d.pagination, err |-> d.err]

StoryActivity(p_id, storyId, query, cr, do) ==
    LET url == "/stories/" \o Sprintf_d(storyId) \o "/activity"
        c == createRequest(p_id, "GET", url, ActivityQuery_Query(query), cr)
    IN  IF c.err # NilError
        THEN [log |-> <<c.event>>, value |-> NilSlice, err |-> c.err]
        ELSE LET d == conn_Do(c.request, "[]Activity", do)
             IN  [log |-> <<c.event, d.event>>, value |-> d.out, err |-> d.err]

StoryTasks(p_id, storyId, query, cr, do) ==
    LET url == "/stories/" \o Sprintf_d(storyId) \o "/tasks"
        c == createRequest(p_id, "GET", url, TaskQuery_Query(query), cr)
    IN  IF c.err # NilError
        THEN [log |-> <<c.event>>, value |-> NilSlice, err |-> c.err]
        ELSE LET d == conn_Do(c.request, "[]Task", do)
             IN  [log |-> <<c.event, d.event>>, value |-> d.out, err |-> d.err]

StoryComments(p_id, storyId, query, cr, do) ==
    LET url == "/stories/" \o Sprintf_d(storyId) \o "/comments"
        c == createRequest(p_id, "GET", url, CommentsQuery_Query(query), cr)
    IN  IF c.err # NilError
        THEN [log |-> <<c.event>>, value |-> NilSlice, err |-> c.err]
        ELSE LET d == conn_Do(c.request, "[]Comment", do)
             IN  [log |-> <<c.event, d.event>>, value |-> d.out, err |-> d.err]

CreateStory(p_id, story, cr, do) ==
    LET c == createRequest(p_id, "POST", "/stories", EmptyValues, cr)
    IN  IF c.err # NilError
        THEN [log |-> <<c.event>>, value |-> ZeroValue("Story"), err |-> c.err]
        ELSE LET buffer == json_Encode(story)
                 request == addJSONBodyReader(c.request, buffer)
                 d == conn_Do(request, "Story", do)
             IN  [log |-> <<c.event, d.event>>, value |-> d.out, err |-> d.err]

\* line 211 returns updatedStory with a nil error whatever Do returned
UpdateStory(p_id, story, cr, do) ==
    LET url == "/stories/" \o Sprintf_d(story.ID)
        c == createRequest(p_id, "PUT", url, EmptyValues, cr)
    IN  IF c.err # NilError
        THEN [log |-> <<c.event>>, value |-> ZeroValue("Story"), err |-> c.err]
        ELSE LET buffer == json_Encode(story)
                 request == addJSONBodyReader(c.request, buffer)
                 d == conn_Do(request, "Story", do)
             IN  [log |-> <<c.event, d.event>>, value |-> d.out, err |-> NilError]

DeleteStory_IgnoresCreateError(p_id, storyId, cr, do) ==
    LET url == "/stories/" \o Sprintf_d(storyId)
        c == createRequest(p_id, "DELETE", url, EmptyValues, cr)
        d == conn_Do(c.request, NilDest, do)
    IN  [log |-> <<c.event, d.event>>, err |-> d.err]

DeleteStory(p_id, storyId, cr, do) ==
    LET url == "/stories/" \o Sprintf_d(storyId)
        c == createRequest(p_id, "DELETE", url, EmptyValues, cr)
    IN  IF c.err # NilError
        THEN [log |-> <<c.event>>, err |-> c.err]
        ELSE LET d == conn_Do(c.request, NilDest, do)
             IN  [log |-> <<c.event, d.event>>, err |-> d.err]

CreateTask_Retries(p_id, storyID, task, cr, do) ==
    LET url == "/stories/" \o Sprintf_d(storyID) \o "/tasks"
        c == createRequest(p_id, "POST", url, EmptyValues, cr)
    IN  IF c.err # NilError
        THEN [log |-> <<c.event>>, value |-> ZeroValue("Task"), err |-> c.err]
        ELSE LET buffer == json_Encode(task)
                 request == addJSONBodyReader(c.request, buffer)
                 d == conn_Do(request, "Task", do)
             IN  [log |-> IF d.err # NilError THEN <<c.event, d.event, d.event>>
                          ELSE <<c.event, d.event>>,
                  value |-> d.out, err |-> d.err]

CreateTask(p_id, storyID, task, cr, do) ==
    LET url == "/stories/" \o Sprintf_d(storyID) \o "/tasks"
        c == createRequest(p_id, "POST", url, EmptyValues, cr)
    IN  IF c.err # NilError
        THEN [log |-> <<c.event>>, value |-> ZeroValue("Task"), err |-> c.err]
        ELSE LET buffer == json_Encode(task)
                 request == addJSONBodyReader(c.request, buffer)
                 d == conn_Do(request, "Task", do)
             IN  [log |-> <<c.event, d.event>>, value |-> d.out, err |-> d.err]

CreateComment(p_id, storyID, comment, cr, do) ==
    LET url == "/stories/" \o Sprintf_d(storyID) \o "/comments"
        c == createRequest(p_id, "POST", url, EmptyValues, cr)
    IN  IF c.err # NilError
        THEN [log |-> <<c.event>>, value |-> ZeroValue("Comment"), err |-> c.err]
        ELSE LET buffer == json_Encode(comment)
                 request == addJSONBodyReader(c.request, buffer)
                 d == conn_Do(request, "Comment", do)
             IN  [log |-> <<c.event, d.event>>, value |-> d.out, err |-> d.err]

CreateBlocker(p_id, storyID, blocker, cr, do) ==
    LET url == "/stories/" \o Sprintf_d(storyID) \o "/blockers"
        c == createRequest(p_id, "POST", url, EmptyValues, cr)
    IN  IF c.err # NilError
        THEN [log |-> <<c.event>>, value |-> ZeroValue("Blocker"), err |-> c.err]
        ELSE LET buffer == json_Encode(blocker)
                 request == addJSONBodyReader(c.request, buffer)
                 d == conn_Do(request, "Blocker", do)
             IN  [log |-> <<c.event, d.event>>, value |-> d.out, err |-> d.err]

ProjectMemberships(p_id, cr, do) ==
    LET c == createRequest(p_id, "GET", "/memberships", EmptyValues, cr)
    IN  IF c.err # NilError
        THEN [log |-> <<c.event>>, value |-> EmptySlice, err |-> c.err]
        ELSE LET d == conn_Do(c.request, "[]ProjectMembership", do)
             IN  IF d.err # NilError
                 THEN [log |-> <<c.event, d.event>>, value |-> EmptySlice, err |-> d.err]
                 ELSE [log |-> <<c.event, d.event>>, value |-> d.out, err |-> NilError]

(***************************************************************************)
(* The caller.  Invoke binds the arguments of one operation; the client    *)
(* is used by one caller at a time, so an operation is invoked once the    *)
(* previous one has returned.                                              *)
(***************************************************************************)
StoryArgs == [ID : StoryIds]
TaskArgs == {[ID |-> 0]}
CommentArgs == [ID : {0}, Text : CommentTexts]
BlockerArgs == {[ID |-> 0]}

Calls ==
    [op : {"Iterations"}, query : IterationsQueries]
      \cup [op : {"Stories"}, query : PagingQueries]
      \cup [op : {"StoryActivity", "StoryTasks", "StoryComments"},
            storyId : StoryIds, query : PagingQueries]
      \cup [op : {"DeliverStoryWithComment"}, storyId : StoryIds, comment : CommentTexts]
      \cup [op : {"DeliverStory", "DeleteStory"}, storyId : StoryIds]
      \cup [op : {"CreateStory", "UpdateStory"}, story : StoryArgs]
      \cup [op : {"CreateTask"}, storyID : StoryIds, task : TaskArgs]
      \cup [op : {"CreateComment"}, storyID : StoryIds, comment : CommentArgs]
      \cup [op : {"CreateBlocker"}, storyID : StoryIds, blocker : BlockerArgs]
      \cup [op : {"ProjectMemberships"}]

Invoke ==
    /\ pc \in {"idle", "returned"}
    /\ \E c \in Calls : call' = c
    /\ pc' = "called"
    /\ log' = << >>
    /\ ret' = NoValue
    /\ UNCHANGED id

\* the operation leaves its transport calls in log and its results in ret
Return(r) ==
    /\ pc' = "returned"
    /\ log' = r.log
    /\ ret' = [err |-> r.err,
               value |-> IF "value" \in DOMAIN r THEN r.value ELSE NoValue,
               pagination |-> IF "pagination" \in DOMAIN r THEN r.pagination
                              ELSE NoValue]
    /\ UNCHANGED <<id, call>>

Called(op) == pc = "called" /\ call.op = op

IterationsCall ==
    /\ Called("Iterations")
    /\ \E cr \in CreateOutcomes, do \in DoOutcomes :
          Return(Iterations(id, call.query, cr, do))

StoriesCall ==
    /\ Called("Stories")
    /\ \E cr \in CreateOutcomes, do \in DoOutcomes :
          Return(Stories(id, call.query, cr, do))

StoryActivityCall ==
    /\ Called("StoryActivity")
    /\ \E cr \in CreateOutcomes, do \in DoOutcomes :
          Return(StoryActivity(id, call.storyId, call.query, cr, do))

StoryTasksCall ==
    /\ Called("StoryTasks")
    /\ \E cr \in CreateOutcomes, do \in DoOutcomes :
          Return(StoryTasks(id, call.storyId, call.query, cr, do))

StoryCommentsCall ==
    /\ Called("StoryComments")
    /\ \E cr \in CreateOutcomes, do \in DoOutcomes :
          Return(StoryComments(id, call.storyId, call.query, cr, do))

DeliverStoryWithCommentCall ==
    /\ Called("DeliverStoryWithComment")
    /\ \E cr1 \in CreateOutcomes, do1 \in DoOutcomes,
          cr2 \in CreateOutcomes, do2 \in DoOutcomes :
          Return(DeliverStoryWithComment(id, call.storyId, call.comment,
                                         cr1, do1, cr2, do2))

DeliverStoryCall ==
    /\ Called("DeliverStory")
    /\ \E cr \in CreateOutcomes, do \in DoOutcomes :
          Return(DeliverStory(id, call.storyId, cr, do))

CreateStoryCall ==
    /\ Called("CreateStory")
    /\ \E cr \in CreateOutcomes, do \in DoOutcomes :
          Return(CreateStory(id, call.story, cr, do))

UpdateStoryCall ==
    /\ Called("UpdateStory")
    /\ \E cr \in CreateOutcomes, do \in DoOutcomes :
          Return(UpdateStory(id, call.story, cr, do))

DeleteStoryCall ==
    /\ Called("DeleteStory")
    /\ \E cr \in CreateOutcomes, do \in DoOutcomes :
          Return(DeleteStory(id, call.storyId, cr, do))

CreateTaskCall ==
    /\ Called("CreateTask")
    /\ \E cr \in CreateOutcomes, do \in DoOutcomes :
          Return(CreateTask(id, call.storyID, call.task, cr, do))

CreateCommentCall ==
    /\ Called("CreateComment")
    /\ \E cr \in CreateOutcomes, do \in DoOutcomes :
          Return(CreateComment(id, call.storyID, call.comment, cr, do))

CreateBlockerCall ==
    /\ Called("CreateBlocker")
    /\ \E cr \in CreateOutcomes, do \in DoOutcomes :
          Return(CreateBlocker(id, call.storyID, call.blocker, cr, do))

ProjectMembershipsCall ==
    /\ Called("ProjectMemberships")
    /\ \E cr \in CreateOutcomes, do \in DoOutcomes :
          Return(ProjectMemberships(id, cr, do))

Init ==
    /\ id \in ProjectIDs
    /\ pc = "idle"
    /\ call = [op |-> "none"]
    /\ log = << >>
    /\ ret = NoValue

Next ==
    \/ Invoke
    \/ IterationsCall
    \/ StoriesCall
    \/ StoryActivityCall
    \/ StoryTasksCall
    \/ StoryCommentsCall
    \/ DeliverStoryWithCommentCall
    \/ DeliverStoryCall
    \/ CreateStoryCall
    \/ UpdateStoryCall
    \/ DeleteStoryCall
    \/ CreateTaskCall
    \/ CreateCommentCall
    \/ CreateBlockerCall
    \/ ProjectMembershipsCall

Spec == Init /\ [][Next]_vars

(***************************************************************************)
(* Vocabulary of the properties: what the transport saw and what the       *)
(* caller got, read from log and ret once the operation has returned.      *)
(***************************************************************************)
Returned == pc = "returned"

IsCreate(e) == e.fn = "CreateRequest"
IsDo(e) == e.fn = "Do"

NumCreates == Cardinality({i \in DOMAIN log : IsCreate(log[i])})
NumDos == Cardinality({i \in DOMAIN log : IsDo(log[i])})

\* the method a transport call is about
EventMethod(e) == IF IsCreate(e) THEN e.method ELSE e.request.Method

ProjectPrefix == "/projects/" \o ToString(id)
StoryPath(sid) == ProjectPrefix \o "/stories/" \o ToString(sid)
CommentsPath(sid) == StoryPath(sid) \o "/comments"

\* C1: in DeliverStoryWithComment, when the delivery fails (the CreateRequest
\* of the PUT or its Do returns an error), no POST request on the story's
\* comments is created or passed to Do, and the caller receives the delivery
\* error.
C1_FailedDeliverySkipsComment ==
    (Returned /\ call.op = "DeliverStoryWithComment") =>
        LET deliveryErr == IF log[1].err # NilError THEN log[1].err ELSE log[2].err
        IN  deliveryErr # NilError =>
              /\ \A i \in DOMAIN log :
                    /\ EventMethod(log[i]) # "POST"
                    /\ IsCreate(log[i]) => log[i].path # CommentsPath(call.storyId)
                    /\ IsDo(log[i]) => log[i].request.Path # CommentsPath(call.storyId)
              /\ ret.err = deliveryErr

C1_Witness ==
    /\ Returned
    /\ call.op = "DeliverStoryWithComment"
    /\ Len(log) = 2
    /\ IsDo(log[2])
    /\ log[2].err \in DoErrors
    /\ ret.err = log[2].err

\* C2: whenever an operation passed a request to Do and Do returned an error,
\* the operation returns that same error to its caller.
C2_DoErrorPropagated ==
    Returned =>
        \A i \in DOMAIN log :
            (IsDo(log[i]) /\ log[i].err # NilError) => ret.err = log[i].err

\* C3: DeliverStory, when CreateRequest succeeds, issues exactly one request
\* through Do: PUT /projects/{id}/stories/{storyId} with the body
\* {"current_state":"delivered"} and a nil destination; no other request is
\* created or sent, whether Do succeeds or fails.
C3_DeliverStoryOnePut ==
    (Returned /\ call.op = "DeliverStory" /\ log[1].err = NilError) =>
        /\ Len(log) = 2
        /\ IsCreate(log[1])
        /\ log[1].method = "PUT"
        /\ log[1].path = StoryPath(call.storyId)
        /\ IsDo(log[2])
        /\ log[2].request.Method = "PUT"
        /\ log[2].request.Path = StoryPath(call.storyId)
        /\ log[2].request.Body = [reader |-> [text |-> "{\"current_state\":\"delivered\"}"]]
        /\ log[2].dest = NilDest
        /\ ret.err = log[2].err

C3_Witness ==
    /\ Returned
    /\ call.op = "DeliverStory"
    /\ call.storyId = MaxStoryId
    /\ Len(log) = 2
    /\ log[2].err = NilError

\* C4: when the delivery of DeliverStoryWithComment succeeds, the PUT on the
\* story is executed by Do before the POST on the story's comments is
\* created; when the comment step fails the caller receives that step's
\* error and nothing follows it, so there are at most two Do calls, PUT then
\* POST.
C4_DeliverThenComment ==
    (Returned /\ call.op = "DeliverStoryWithComment"
       /\ Len(log) >= 2 /\ log[1].err = NilError /\ log[2].err = NilError) =>
        /\ IsCreate(log[1]) /\ log[1].method = "PUT"
        /\ IsDo(log[2]) /\ log[2].request.Method = "PUT"
        /\ log[2].request.Path = StoryPath(call.storyId)
        /\ Len(log) >= 3
        /\ IsCreate(log[3]) /\ log[3].method = "POST"
        /\ log[3].path = CommentsPath(call.storyId)
        /\ IF log[3].err # NilError
           THEN Len(log) = 3 /\ ret.err = log[3].err
           ELSE /\ Len(log) = 4
                /\ IsDo(log[4]) /\ log[4].request.Method = "POST"
                /\ log[4].request.Path = CommentsPath(call.storyId)
                /\ ret.err = log[4].err
        /\ NumDos <= 2

C4_Witness ==
    /\ Returned
    /\ call.op = "DeliverStoryWithComment"
    /\ Len(log) = 4
    /\ log[2].err = NilError
    /\ log[4].err \in DoErrors
    /\ ret.err = log[4].err

\* C5: when CreateRequest returns an error, the operation returns that error
\* to its caller at once: that call is the last transport call it makes, and
\* no nil request reaches Do.
C5_CreateErrorReturned ==
    Returned =>
        \A i \in DOMAIN log :
            /\ (IsCreate(log[i]) /\ log[i].err # NilError) =>
                  (i = Len(log) /\ ret.err = log[i].err)
            /\ IsDo(log[i]) => log[i].request # NilRequest

C5_Witness ==
    /\ Returned
    /\ call.op = "DeliverStoryWithComment"
    /\ Len(log) = 3
    /\ log[3].err \in CreateErrors
    /\ ret.err = log[3].err

\* the resource path each operation addresses, relative to the project
RelativePath(c) ==
    CASE c.op = "Iterations" -> {"/iterations"}
      [] c.op = "Stories" -> {"/stories"}
      [] c.op = "StoryActivity" -> {"/stories/" \o ToString(c.storyId) \o "/activity"}
      [] c.op = "StoryTasks" -> {"/stories/" \o ToString(c.storyId) \o "/tasks"}
      [] c.op = "StoryComments" -> {"/stories/" \o ToString(c.storyId) \o "/comments"}
      [] c.op = "DeliverStoryWithComment" ->
            {"/stories/" \o ToString(c.storyId),
             "/stories/" \o ToString(c.storyId) \o "/comments"}
      [] c.op = "DeliverStory" -> {"/stories/" \o ToString(c.storyId)}
      [] c.op = "CreateStory" -> {"/stories"}
      [] c.op = "UpdateStory" -> {"/stories/" \o ToString(c.story.ID)}
      [] c.op = "DeleteStory" -> {"/stories/" \o ToString(c.storyId)}
      [] c.op = "CreateTask" -> {"/stories/" \o ToString(c.storyID) \o "/tasks"}
      [] c.op = "CreateComment" -> {"/stories/" \o ToString(c.storyID) \o "/comments"}
      [] c.op = "CreateBlocker" -> {"/stories/" \o ToString(c.storyID) \o "/blockers"}
      [] c.op = "ProjectMemberships" -> {"/memberships"}
      [] OTHER -> {}

C6_PathsUnderProject ==
    \A i \in DOMAIN log :
        IsCreate(log[i]) =>
            \E rel \in RelativePath(call) : log[i].path = ProjectPrefix \o rel

\* C6: every request an operation asks the transport to create has the path
\* /projects/{id}{relativePath} for the project ID the client is bound to,
\* and no operation changes the bound ID.
C6_ProjectScoped == [][id' = id /\ C6_PathsUnderProject']_vars

C6_Witness ==
    /\ Returned
    /\ id = MaxProjectID
    /\ call.op = "CreateBlocker"
    /\ call.storyID = -1
    /\ log[1].path = "/projects/" \o ToString(MaxProjectID) \o "/stories/-1/blockers"

BodylessOps ==
    {"Iterations", "Stories", "StoryActivity", "StoryTasks", "StoryComments",
     "ProjectMemberships", "DeleteStory"}

BodyOps ==
    {"CreateStory", "UpdateStory", "DeliverStory", "DeliverStoryWithComment",
     "CreateTask", "CreateComment", "CreateBlocker"}

\* C7: a request passed to Do by a GET or DELETE operation has no body and
\* no Content-Type header; a request passed to Do by a POST or PUT operation
\* has a body and Content-Type: application/json.
C7_BodyPolicy ==
    Returned =>
        \A i \in DOMAIN log :
            IsDo(log[i]) =>
                LET request == log[i].request
                IN  /\ call.op \in BodylessOps =>
                          /\ request = log[i - 1].request
                          /\ request.Method \in {"GET", "DELETE"}
                          /\ request.Body = NilBody
                          /\ "Content-Type" \notin DOMAIN request.Header
                    /\ call.op \in BodyOps =>
                          /\ request.Method \in {"POST", "PUT"}
                          /\ request.Body # NilBody
                          /\ "Content-Type" \in DOMAIN request.Header
                          /\ request.Header["Content-Type"] = <<"application/json">>
                          /\ \A k \in DOMAIN log[i - 1].request.Header :
                                request.Header[k] = log[i - 1].request.Header[k]
                    /\ call.op \in BodylessOps \cup BodyOps

C7_Witness ==
    /\ Returned
    /\ call.op = "CreateComment"
    /\ Len(log) = 2
    /\ log[2].request.Body = [reader |-> [json |-> call.comment]]
    /\ log[2].request.Header["Content-Type"] = <<"application/json">>

\* C8: the parameter map of IterationsQuery.Query has the key scope exactly
\* when Scope is non-empty, label exactly when Label is non-empty, limit
\* exactly when Limit is non-zero and offset exactly when Offset is non-zero;
\* each key carries exactly one value, the field itself or, for the numeric
\* fields, its base-10 rendering; no other key appears.
C8_IterationsQueryParams ==
    (Returned /\ call.op = "Iterations") =>
        LET query == call.query
            params == log[1].params
        IN  /\ DOMAIN params =
                  {k \in {"scope"} : query.Scope # ""}
                    \cup {k \in {"label"} : query.Label # ""}
                    \cup {k \in {"limit"} : query.Limit # 0}
                    \cup {k \in {"offset"} : query.Offset # 0}
            /\ query.Scope # "" => params["scope"] = <<query.Scope>>
            /\ query.Label # "" => params["label"] = <<query.Label>>
            /\ query.Limit # 0 => params["limit"] = <<ToString(query.Limit)>>
            /\ query.Offset # 0 => params["offset"] = <<ToString(query.Offset)>>

C8_Witness ==
    /\ Returned
    /\ call.op = "Iterations"
    /\ call.query = [Scope |-> IterationScopeCurrentBacklog, Label |-> "",
                     Limit |-> -1, Offset |-> MaxOffset]
    /\ DOMAIN log[1].params = {"scope", "limit", "offset"}
    /\ log[1].params["limit"] = <<"-1">>

\* C9: Stories and Iterations hand CreateRequest exactly the parameters of
\* the query's Query(), and when CreateRequest and Do both succeed they
\* return the array Do decoded, the Pagination Do returned and a nil error.
C9_ListResult ==
    (Returned /\ call.op \in {"Stories", "Iterations"}) =>
        /\ log[1].params = IF call.op = "Stories" THEN StoriesQuery_Query(call.query)
                           ELSE IterationsQuery_Query(call.query)
        /\ (Len(log) = 2 /\ log[2].err = NilError) =>
              /\ ret.value = log[2].out
              /\ ret.pagination = log[2].pagination
              /\ ret.err = NilError

C9_Witness ==
    /\ Returned
    /\ call.op = "Stories"
    /\ call.query = [Limit |-> MaxLimit, Offset |-> MaxOffset]
    /\ Len(log) = 2
    /\ log[2].err = NilError
    /\ log[2].pagination.Total = 7
    /\ ret.pagination.Total = 7
    /\ Len(ret.value.elems) = MaxPayload

\* C10: an operation other than DeliverStoryWithComment calls CreateRequest
\* exactly once and Do at most once, whatever the outcome; DeliverStoryWith-
\* Comment calls each at most twice.
C10_OneRoundTrip ==
    Returned =>
        IF call.op = "DeliverStoryWithComment"
        THEN NumCreates \in {1, 2} /\ NumDos <= 2 /\ NumDos <= NumCreates
        ELSE NumCreates = 1 /\ NumDos <= 1 /\ IsCreate(log[1])

C10_Witness ==
    /\ Returned
    /\ call.op = "CreateTask"
    /\ Len(log) = 2
    /\ log[2].err \in DoErrors
    /\ NumDos = 1

====
